---- MODULE Spec2Model ----
(***************************************************************************)
(* Capture sessions of the ESP32-P4 OV5647 camera application.             *)
(*                                                                         *)
(* Three kinds of context run a capture session against the one video      *)
(* device: the /stream handler, the /capture handler (camera_server.c) and *)
(* the detection task (face_detect_task.cpp).  Every ioctl, mmap, munmap,  *)
(* encode and send of the code is one step; each may fail.                 *)
(***************************************************************************)
EXTENDS Integers, FiniteSets, Sequences, TLC

\* camera_server.c:31
STREAM_BUFFER_COUNT == 3
\* camera_server.c:468, the count the capture handler requests
CAPTURE_BUFFER_COUNT == 1
\* CONFIG_FACE_DET_BUFFER_COUNT is a build option whose value is not in the
\* sources; the model bounds it.
FaceDetBufferCount == 2
\* Number of HTTP request contexts that may be served at the same time.
NumHandlers == 2

\* Widths and heights are 1 .. MaxDim; 0 is the unset value
MaxDim == 2

\* Calls of camera_lock_release a context makes without holding the gate
MaxStrayReleases == 1

Handlers == 1 .. NumHandlers
MaxCount ==
    IF FaceDetBufferCount > STREAM_BUFFER_COUNT
    THEN FaceDetBufferCount ELSE STREAM_BUFFER_COUNT
BufIdx == 0 .. (MaxCount - 1)
NoBuf == 0 - 1

VARIABLES
    lock,        \* s_stream_state.lock: whether it exists, and the handler
                 \* that has taken it (0: nobody)
    s_server,    \* s_server # NULL
    hs,          \* hs[h]: the locals of the handler running in context h
    det,         \* the detection task: its position and s_ctx.buffers
    ctx,         \* s_ctx: camera_fd, mqtt_client, running, should_stop,
                 \* detector, task_handle and the stored format
    ctl,         \* the caller of face_detect_start / face_detect_stop
    device,      \* the format the video device is set to
    isp,         \* CONFIG_FACE_DET_ISP_WIDTH and CONFIG_FACE_DET_ISP_HEIGHT
    s_stream_state,  \* s_stream_state: width, height, pixformat
    s_jpeg_state,    \* s_jpeg_state: initialized, handle, out_buf and the
                     \* encoder parameters
    start,       \* the last call of camera_server_start: the step that
                 \* ended it and the value it returned
    cam,         \* camera_init.c: s_cam_dev, s_video_fd, s_i2c_bus,
                 \* s_sccb_handle and s_video_initialized, with the release
                 \* calls the last camera_init or camera_deinit issued
    sensor,      \* the format array esp_cam_sensor_query_format reports,
                 \* CONFIG_CAMERA_FRAME_WIDTH and CONFIG_CAMERA_FRAME_HEIGHT
    init,        \* the last call of camera_init, until camera_deinit is
                 \* called: the step that ended it, the value it
                 \* returned, the index of the format it selected, and
                 \* what it acquired and left behind
    wifi         \* app_main.c: s_retry_num and the bits of
                 \* s_wifi_event_group, with the last event event_handler
                 \* handled, whether it called esp_wifi_connect, and the
                 \* number of events handled

fmtvars ==
    <<device, isp, s_stream_state, s_jpeg_state, start, cam, sensor, init,
      wifi>>
vars == <<lock, s_server, hs, det, ctx, ctl, fmtvars>>

ZeroCount == [b \in BufIdx |-> 0]

\* jpeg_encoder_init, lines 121-145: the pixel formats of the switch
SupportedPixFormats == {"RGB565", "RGB24", "YUV422P", "GREY"}
\* The pixel formats VIDIOC_G_FMT may report: the four above and the raw
\* format of the sensor (camera_init.c:115)
DevicePixFormats == SupportedPixFormats \cup {"RAW10"}
Dims == 1 .. MaxDim

\* FaceDetectContext: camera_fd = -1 and mqtt_client = nullptr
NoFd == 0 - 1
NoClient == 0
\* The file descriptors and the MQTT handles face_detect_start is called
\* with: a negative descriptor, MaxFd open ones, nullptr and MaxClient
\* client handles
MaxFd == 2
MaxClient == 2
Fds == {NoFd} \cup (1 .. MaxFd)
Clients == {NoClient} \cup (1 .. MaxClient)

\* The formats a sensor reports in its format array: RAW10 and another
\* pixel format, in the sizes of Dims
SensorPixFormats == {"RAW10", "RAW8"}
SensorFormats == [pixformat : SensorPixFormats, width : Dims, height : Dims]
\* The format arrays esp_cam_sensor_query_format fills in: up to MaxFormats
\* formats in any order, the empty array included
MaxFormats == 2
FormatArrays ==
    UNION {[1 .. n -> SensorFormats] : n \in 0 .. MaxFormats}

\* CONFIG_ESP_MAXIMUM_RETRY of the build, and the number of events the
\* event loop delivers to event_handler
CONFIG_ESP_MAXIMUM_RETRY == 2
MaxEvents == 8
\* The events event_handler is registered for (app_main.c lines 102-111):
\* every WIFI_EVENT, of which it tests two, and IP_EVENT_STA_GOT_IP
WifiEvents ==
    {"WIFI_EVENT_STA_START", "WIFI_EVENT_STA_CONNECTED",
     "WIFI_EVENT_STA_DISCONNECTED", "IP_EVENT_STA_GOT_IP"}

\* struct v4l2_format zeroed: fmt = {0}
NoFmt == [pixformat |-> "none", width |-> 0, height |-> 0]
\* s_jpeg_state = {0}
NoEncoder ==
    [ initialized |-> FALSE, handle |-> FALSE, out_buf |-> FALSE,
      src_format |-> "none", sub_sample |-> "none", src_stride |-> 0 ]

\* app_main.c line 32 and xEventGroupCreate (line 90): s_retry_num = 0 and
\* no bit set, no event handled yet
NoWifi ==
    [ s_retry_num |-> 0, bits |-> {}, event |-> "none", connect |-> FALSE,
      events |-> 0 ]

\* camera_init.c lines 22-26: the static initialisers
NoCamera ==
    [ cam_dev |-> FALSE, video_fd |-> FALSE, i2c_bus |-> FALSE,
      sccb_handle |-> FALSE, video_initialized |-> FALSE, calls |-> {} ]
\* camera_init has returned the device (line 179)
CameraReady ==
    [ cam_dev |-> TRUE, video_fd |-> TRUE, i2c_bus |-> TRUE,
      sccb_handle |-> TRUE, video_initialized |-> TRUE, calls |-> {} ]
\* The format of the video device once camera_init has set the sensor to a
\* RAW10 format (lines 115-137)
SensorFormat == [pixformat |-> "RAW10", width |-> MaxDim, height |-> 1]

\* The locals of a session before its first statement, with the record of
\* what the session has done so far: maps[b] successful mmap calls and
\* unmaps[b] munmap calls for index b, touched once a device ioctl was
\* issued, streamon once VIDIOC_STREAMON was issued, pending while the
\* buffer in hand has been dequeued and no VIDIOC_QBUF was issued for it,
\* exit_cause the step that ended the session, releases the calls of
\* camera_lock_release, count the buffers the device granted on
\* VIDIOC_REQBUFS and holds for the session, streaming while the device
\* streams for the session, streamoff once VIDIOC_STREAMOFF was issued,
\* fmt the struct v4l2_format of configure_camera_device.
NewSession(kind, pc) ==
    [ pc |-> pc, kind |-> kind,
      count |-> 0, i |-> 0, buffers |-> FALSE,
      mapped |-> {}, queued |-> {}, dequeued |-> {},
      stream_started |-> FALSE,
      cur |-> NoBuf, cur_done |-> FALSE, pending |-> FALSE,
      maps |-> ZeroCount, unmaps |-> ZeroCount,
      touched |-> FALSE, streamon |-> FALSE, exit_cause |-> "none",
      has_gate |-> FALSE, releases |-> 0,
      resp |-> "none", ret |-> "none",
      streaming |-> FALSE, streamoff |-> FALSE, fmt |-> NoFmt ]

\* The static initialisers of camera_server.c and face_detect_task.cpp,
\* with the device in one of the formats devs and the build configured
\* with one of the ISP output sizes isps
InitStatics(devs, isps) ==
    /\ lock = [exists |-> FALSE, holder |-> 0]
    /\ s_server = FALSE
    /\ hs = [h \in Handlers |-> NewSession("none", "idle")]
    /\ det = NewSession("detect", "none")
    /\ ctx = [ camera_fd |-> NoFd, mqtt_client |-> NoClient,
               running |-> FALSE, should_stop |-> FALSE,
               detector |-> FALSE, task_handle |-> FALSE,
               width |-> 0, height |-> 0, pixformat |-> "none" ]
    /\ ctl = [ pc |-> "idle", ret |-> "none" ]
    /\ device \in devs
    /\ isp \in isps
    /\ s_stream_state = [width |-> 0, height |-> 0, pixformat |-> "JPEG"]
    /\ s_jpeg_state = NoEncoder
    /\ start = [step |-> "none", ret |-> "none"]
    /\ wifi = NoWifi

\* The state in which app_main starts the server (app_main.c lines
\* 198-213): camera_init has returned the device and camera_get_fd its
\* descriptor
InitWith(devs, isps) ==
    /\ InitStatics(devs, isps)
    /\ cam = CameraReady
    /\ sensor = [ format_array |-> <<SensorFormat>>,
                  desired_width |-> 0, desired_height |-> 0 ]
    /\ init = [ step |-> "none", ret |-> "dev", selected |-> 1,
                leaked |-> {} ]

\* The application once the camera is open: camera_init has selected a
\* RAW10 sensor format, and no ISP output size is configured
Init ==
    InitWith({SensorFormat},
             {[width |-> 0, height |-> 0]})

\* camera_server_start called with the device in any format and the build
\* configured with any ISP output size
InitAnyFormat ==
    InitWith([pixformat : DevicePixFormats, width : Dims, height : Dims],
             [width : 0 .. MaxDim, height : 0 .. MaxDim])

----------------------------------------------------------------------------
(* Steps shared by the three session codes *)

\* ioctl(fd, op, ...) is issued
Issue(s, op) ==
    [s EXCEPT !.touched = TRUE, !.streamon = @ \/ op = "STREAMON"]

\* mmap succeeded for index s.i: buffers[i].addr is the new region
MmapOk(s) ==
    [s EXCEPT !.mapped = @ \cup {s.i}, !.maps[s.i] = @ + 1]

\* VIDIOC_QBUF succeeded for buffer b: the hardware owns it
QbufOk(s, b) ==
    [s EXCEPT !.queued = @ \cup {b}, !.dequeued = @ \ {b}]

\* VIDIOC_DQBUF succeeded and returned buffer b: the consumer owns it
DqbufOk_KeepQueued(s, b, done) ==
    [s EXCEPT !.dequeued = @ \cup {b},
              !.cur = b, !.cur_done = done, !.pending = TRUE]

DqbufOk(s, b, done) ==
    [s EXCEPT !.queued = @ \ {b}, !.dequeued = @ \cup {b},
              !.cur = b, !.cur_done = done, !.pending = TRUE]

\* VIDIOC_STREAMON succeeded: the device streams
StreamOn(s) ==
    [s EXCEPT !.stream_started = TRUE, !.streaming = TRUE]

\* VIDIOC_STREAMOFF, its result ignored: when it succeeds the device stops
\* streaming and the driver drops every buffer from its queues
StreamOff(s, ok) ==
    IF ok
    THEN [Issue(s, "STREAMOFF") EXCEPT !.streamoff = TRUE,
                                       !.streaming = FALSE,
                                       !.queued = {}, !.dequeued = {}]
    ELSE [Issue(s, "STREAMOFF") EXCEPT !.streamoff = TRUE]

\* The unmap loop of the teardown: one munmap for every index below count
\* whose addr is not NULL
UnmapLoop_All(s) ==
    [s EXCEPT !.unmaps = [b \in BufIdx |->
                            IF b < s.count THEN @[b] + 1 ELSE @[b]],
              !.mapped = {}]

UnmapLoop_UpToI(s) ==
    [s EXCEPT !.unmaps = [b \in BufIdx |->
                            IF b < s.i /\ b \in s.mapped
                            THEN @[b] + 1 ELSE @[b]],
              !.mapped = {b \in s.mapped : b >= s.i}]

UnmapLoop(s) ==
    [s EXCEPT !.unmaps = [b \in BufIdx |->
                            IF b < s.count /\ b \in s.mapped
                            THEN @[b] + 1 ELSE @[b]],
              !.mapped = {}]

\* goto cleanup / break: buf is not read again
GotoCleanup(s, cause, ret) ==
    [s EXCEPT !.pc = "cleanup", !.exit_cause = cause, !.ret = ret,
              !.cur = NoBuf, !.cur_done = FALSE]

\* The head of the steady-state loop: memset(&buf, 0, sizeof(buf))
LoopTop(s) ==
    [s EXCEPT !.pc = "dqbuf", !.cur = NoBuf, !.cur_done = FALSE]

\* The handler has returned: its locals are gone; what stays is what the
\* client and the gate saw of it
Returned(s) ==
    [NewSession(s.kind, "done") EXCEPT
       !.resp = s.resp, !.ret = s.ret, !.touched = s.touched,
       !.releases = s.releases, !.has_gate = s.has_gate]

SetH(h, s) == hs' = [hs EXCEPT ![h] = s]

----------------------------------------------------------------------------
(* camera_server.c *)

\* camera_state_init, lines 96-108: the lock is created once
camera_state_init(l, created) ==
    IF l.exists THEN [ret |-> "ESP_OK", lock |-> l]
    ELSE IF ~created THEN [ret |-> "ESP_ERR_NO_MEM", lock |-> l]
    ELSE [ret |-> "ESP_OK", lock |-> [exists |-> TRUE, holder |-> 0]]

\* lines 256-263: the configured ISP output size replaces the size read
\* from the device when both of its numbers are positive
DesiredSize(f, cfg) ==
    IF cfg.width > 0 /\ cfg.height > 0
    THEN [f EXCEPT !.width = cfg.width, !.height = cfg.height]
    ELSE f

\* configure_camera_device, lines 246-303, on a device set to dev:
\* VIDIOC_G_FMT, then VIDIOC_S_FMT to RGB565 and, when that fails, to
\* YUV422P; state is s_stream_state as the call leaves it
configure_camera_device_StoreAlways(dev, cfg, state, gfmt_ok, rgb_ok, yuv_ok) ==
    LET fmt == DesiredSize(dev, cfg) IN
    [ret |-> IF gfmt_ok THEN "ESP_OK" ELSE "ESP_FAIL",
     device |-> dev, state |-> fmt]

configure_camera_device(dev, cfg, state, gfmt_ok, rgb_ok, yuv_ok) ==
    IF ~gfmt_ok
    THEN [ret |-> "ESP_FAIL", device |-> dev, state |-> state]
    ELSE LET fmt == DesiredSize(dev, cfg)
             rgb_fmt == [fmt EXCEPT !.pixformat = "RGB565"]
             yuv_fmt == [fmt EXCEPT !.pixformat = "YUV422P"]
         IN  IF dev.pixformat = "RGB565"
             THEN [ret |-> "ESP_OK", device |-> dev, state |-> fmt]
             ELSE IF rgb_ok
             THEN [ret |-> "ESP_OK", device |-> rgb_fmt, state |-> rgb_fmt]
             ELSE IF yuv_ok
             THEN [ret |-> "ESP_OK", device |-> yuv_fmt, state |-> yuv_fmt]
             ELSE [ret |-> "ESP_OK", device |-> dev, state |-> fmt]

\* The switch of jpeg_encoder_init, lines 121-145
SrcFormat(pixformat) ==
    CASE pixformat = "RGB565"  -> "JPEG_ENCODE_IN_FORMAT_RGB565"
      [] pixformat = "RGB24"   -> "JPEG_ENCODE_IN_FORMAT_RGB888"
      [] pixformat = "YUV422P" -> "JPEG_ENCODE_IN_FORMAT_YUV422"
      [] pixformat = "GREY"    -> "JPEG_ENCODE_IN_FORMAT_GRAY"
      [] OTHER                 -> "none"
SubSample(pixformat) ==
    CASE pixformat = "RGB565"  -> "JPEG_DOWN_SAMPLING_YUV422"
      [] pixformat = "RGB24"   -> "JPEG_DOWN_SAMPLING_YUV444"
      [] pixformat = "YUV422P" -> "JPEG_DOWN_SAMPLING_YUV422"
      [] pixformat = "GREY"    -> "JPEG_DOWN_SAMPLING_GRAY"
      [] OTHER                 -> "none"
SrcBpp(pixformat) ==
    CASE pixformat = "RGB565"  -> 16
      [] pixformat = "RGB24"   -> 24
      [] pixformat = "YUV422P" -> 16
      [] pixformat = "GREY"    -> 8
      [] OTHER                 -> 0

\* jpeg_encoder_init, lines 110-182, with s_jpeg_state at js and
\* s_stream_state at state: the engine, then the output buffer
jpeg_encoder_init_KeepEngine(js, state, eng_ok, alloc_ok) ==
    IF js.initialized THEN [ret |-> "ESP_OK", js |-> js]
    ELSE IF state.pixformat \notin SupportedPixFormats
    THEN [ret |-> "ESP_ERR_NOT_SUPPORTED", js |-> js]
    ELSE IF ~eng_ok
    THEN [ret |-> "jpeg_new_encoder_engine err", js |-> js]
    ELSE IF ~alloc_ok
    THEN [ret |-> "ESP_ERR_NO_MEM", js |-> [js EXCEPT !.handle = TRUE]]
    ELSE [ret |-> "ESP_OK",
          js |-> [ initialized |-> TRUE, handle |-> TRUE, out_buf |-> TRUE,
                   src_format |-> SrcFormat(state.pixformat),
                   sub_sample |-> SubSample(state.pixformat),
                   src_stride |-> (state.width * state.height
                                     * SrcBpp(state.pixformat)) \div 8 ]]

jpeg_encoder_init(js, state, eng_ok, alloc_ok) ==
    IF js.initialized THEN [ret |-> "ESP_OK", js |-> js]
    ELSE IF state.pixformat \notin SupportedPixFormats
    THEN [ret |-> "ESP_ERR_NOT_SUPPORTED", js |-> js]
    ELSE IF ~eng_ok
    THEN [ret |-> "jpeg_new_encoder_engine err", js |-> js]
    ELSE IF ~alloc_ok
    THEN [ret |-> "ESP_ERR_NO_MEM", js |-> [js EXCEPT !.handle = FALSE]]
    ELSE [ret |-> "ESP_OK",
          js |-> [ initialized |-> TRUE, handle |-> TRUE, out_buf |-> TRUE,
                   src_format |-> SrcFormat(state.pixformat),
                   sub_sample |-> SubSample(state.pixformat),
                   src_stride |-> (state.width * state.height
                                     * SrcBpp(state.pixformat)) \div 8 ]]

\* jpeg_encoder_deinit, lines 184-197; the encoder parameters stay
jpeg_encoder_deinit(js) ==
    [js EXCEPT !.out_buf = FALSE, !.handle = FALSE, !.initialized = FALSE]

\* jpeg_encode_frame, lines 199-229: its result when jpeg_encoder_process
\* succeeds (ok) or fails
jpeg_encode_frame(js, ok) ==
    IF ~js.initialized THEN "ESP_ERR_INVALID_STATE"
    ELSE IF ok THEN "ESP_OK" ELSE "jpeg_encoder_process err"

\* camera_server_start, lines 551-616: creates the lock, negotiates the
\* format, configures the encoder, starts the HTTP server and registers
\* the URI handlers; it returns at the first step that fails
camera_server_start ==
    /\ \E camera_fd \in {0 - 1, 3},
          created, gfmt_ok, rgb_ok, yuv_ok, eng_ok, alloc_ok, httpd_ok
             \in BOOLEAN :
          LET st == camera_state_init(lock, created)
              cf == configure_camera_device(device, isp, s_stream_state,
                                            gfmt_ok, rgb_ok, yuv_ok)
              je == jpeg_encoder_init(s_jpeg_state, cf.state, eng_ok,
                                      alloc_ok)
          IN
          IF camera_fd < 0
          THEN /\ start' = [step |-> "arg", ret |-> "ESP_ERR_INVALID_ARG"]
               /\ UNCHANGED <<lock, s_server, device, s_stream_state,
                              s_jpeg_state>>
          ELSE IF st.ret # "ESP_OK"
          THEN /\ start' = [step |-> "state_init", ret |-> st.ret]
               /\ UNCHANGED <<lock, s_server, device, s_stream_state,
                              s_jpeg_state>>
          ELSE IF cf.ret # "ESP_OK"
          THEN /\ start' = [step |-> "configure", ret |-> cf.ret]
               /\ lock' = st.lock
               /\ device' = cf.device
               /\ s_stream_state' = cf.state
               /\ UNCHANGED <<s_server, s_jpeg_state>>
          ELSE IF je.ret # "ESP_OK"
          THEN /\ start' = [step |-> "encoder", ret |-> je.ret]
               /\ lock' = st.lock
               /\ device' = cf.device
               /\ s_stream_state' = cf.state
               /\ s_jpeg_state' = je.js
               /\ UNCHANGED s_server
          ELSE /\ lock' = st.lock
               /\ device' = cf.device
               /\ s_stream_state' = cf.state
               /\ IF httpd_ok
                  THEN /\ start' = [step |-> "started", ret |-> "ESP_OK"]
                       /\ s_jpeg_state' = je.js
                       /\ s_server' = TRUE
                  ELSE /\ start' = [step |-> "httpd", ret |-> "ESP_FAIL"]
                       /\ s_jpeg_state' = jpeg_encoder_deinit(je.js)
                       /\ UNCHANGED s_server
    /\ UNCHANGED <<hs, det, ctx, ctl, isp, cam, sensor, init, wifi>>

\* app_main.c line 213: camera_server_start is called while no server runs
FirstStart ==
    /\ ~s_server
    /\ camera_server_start

\* jpeg_encoder_deinit, lines 184-197: the calls it issues
jpeg_encoder_deinit_calls(js) ==
    {c \in {"free"} : js.out_buf}
       \cup {c \in {"jpeg_del_encoder_engine"} : js.handle}

\* camera_server_stop with the lock deleted and its pointer kept
camera_server_stop_state_Keep(sv, l, js) ==
    [ s_server |-> FALSE, lock |-> l, js |-> jpeg_encoder_deinit(js) ]

\* camera_server_stop, lines 618-632: what it leaves of s_server, the lock
\* and the encoder
camera_server_stop_state(sv, l, js) ==
    [ s_server |-> IF sv THEN FALSE ELSE sv,
      lock |-> IF l.exists THEN [exists |-> FALSE, holder |-> 0] ELSE l,
      js |-> jpeg_encoder_deinit(js) ]

\* camera_server_stop: the calls it issues
camera_server_stop_calls(sv, l, js) ==
    {c \in {"httpd_stop"} : sv}
       \cup {c \in {"vSemaphoreDelete"} : l.exists}
       \cup jpeg_encoder_deinit_calls(js)

\* camera_server_stop, lines 618-632; httpd_stop returns when no request
\* is being served
camera_server_stop ==
    /\ \A h \in Handlers : hs[h].pc \in {"idle", "done"}
    /\ LET st == camera_server_stop_state(s_server, lock, s_jpeg_state) IN
       /\ s_server' = st.s_server
       /\ lock' = st.lock
       /\ s_jpeg_state' = st.js
    /\ UNCHANGED <<hs, det, ctx, ctl, device, isp, s_stream_state, start,
                   cam, sensor, init, wifi>>

\* A request for /stream or /capture reaches its handler
HandlerEnter(h) ==
    /\ s_server
    /\ hs[h].pc \in {"idle", "done"}
    /\ \E kind \in {"stream", "capture"} :
          SetH(h, NewSession(kind, "acquire"))
    /\ UNCHANGED <<lock, s_server, det, ctx, ctl, fmtvars>>

\* camera_lock_acquire returns true: xSemaphoreTake got the mutex
camera_lock_acquire_AnyTime(h) ==
    /\ lock.exists
    /\ lock' = [lock EXCEPT !.holder = h]

camera_lock_acquire(h) ==
    /\ lock.exists /\ lock.holder = 0
    /\ lock' = [lock EXCEPT !.holder = h]

\* camera_lock_acquire returns false: no lock, or the mutex stayed taken
\* for CAMERA_LOCK_TIMEOUT_MS
camera_lock_timeout(h) ==
    /\ ~lock.exists \/ lock.holder \notin {0, h}
    /\ lock' = lock

\* camera_lock_release with the lock deleted by the call
camera_lock_release_Delete ==
    lock' = [exists |-> FALSE, holder |-> 0]

\* camera_lock_release: xSemaphoreGive when the lock exists
camera_lock_release ==
    lock' = IF lock.exists THEN [lock EXCEPT !.holder = 0] ELSE lock

\* camera_lock_release called by a context that has run no session, while
\* nobody holds the gate; releases counts the calls of the context
StrayRelease(h) ==
    /\ hs[h].pc = "idle"
    /\ hs[h].releases < MaxStrayReleases
    /\ lock.holder = 0
    /\ camera_lock_release
    /\ SetH(h, [hs[h] EXCEPT !.releases = @ + 1])
    /\ UNCHANGED <<s_server, det, ctx, ctl, fmtvars>>

HandlerGranted(h) ==
    /\ hs[h].pc = "acquire"
    /\ camera_lock_acquire(h)
    /\ SetH(h, [hs[h] EXCEPT !.pc = "reqbufs", !.has_gate = TRUE])
    /\ UNCHANGED <<s_server, det, ctx, ctl, fmtvars>>

HandlerDenied_Cleanup(h) ==
    /\ hs[h].pc = "acquire"
    /\ camera_lock_timeout(h)
    /\ SetH(h, [hs[h] EXCEPT !.pc = "release", !.resp = "500 Camera busy",
                             !.ret = "ESP_FAIL"])
    /\ UNCHANGED <<s_server, det, ctx, ctl, fmtvars>>

\* The handler going on to its session after camera_lock_acquire failed
HandlerDenied_Proceed(h) ==
    /\ hs[h].pc = "acquire"
    /\ camera_lock_timeout(h)
    /\ SetH(h, [hs[h] EXCEPT !.pc = "reqbufs"])
    /\ UNCHANGED <<s_server, det, ctx, ctl, fmtvars>>

HandlerDenied(h) ==
    /\ hs[h].pc = "acquire"
    /\ camera_lock_timeout(h)
    /\ SetH(h, Returned([hs[h] EXCEPT !.resp = "500 Camera busy",
                                      !.ret = "ESP_FAIL"]))
    /\ UNCHANGED <<s_server, det, ctx, ctl, fmtvars>>

\* stream_handler, lines 329-340: VIDIOC_REQBUFS for STREAM_BUFFER_COUNT
StreamReqbufs(h) ==
    /\ hs[h].pc = "reqbufs" /\ hs[h].kind = "stream"
    /\ \E n \in 0 .. STREAM_BUFFER_COUNT, ok \in BOOLEAN :
          LET s == Issue(hs[h], "REQBUFS") IN
          IF ~ok \/ n = 0
          THEN SetH(h, [GotoCleanup(s, "reqbufs", "ESP_FAIL")
                          EXCEPT !.resp = "500 Unable to alloc buffers"])
          ELSE SetH(h, [s EXCEPT !.count = n, !.pc = "calloc"])
    /\ UNCHANGED <<lock, s_server, det, ctx, ctl, fmtvars>>

\* lines 342-348: calloc of the buffer descriptors
StreamCalloc_NoResponse(h) ==
    /\ hs[h].pc = "calloc"
    /\ \/ SetH(h, GotoCleanup(hs[h], "calloc", "ESP_ERR_NO_MEM"))
       \/ SetH(h, [hs[h] EXCEPT !.buffers = TRUE, !.i = 0,
                                !.pc = "querybuf"])
    /\ UNCHANGED <<lock, s_server, det, ctx, ctl, fmtvars>>

StreamCalloc(h) ==
    /\ hs[h].pc = "calloc"
    /\ \/ SetH(h, [GotoCleanup(hs[h], "calloc", "ESP_ERR_NO_MEM")
                     EXCEPT !.resp = "500 Out of memory"])
       \/ SetH(h, [hs[h] EXCEPT !.buffers = TRUE, !.i = 0,
                                !.pc = "querybuf"])
    /\ UNCHANGED <<lock, s_server, det, ctx, ctl, fmtvars>>

\* lines 350-360: VIDIOC_QUERYBUF of index i
StreamQuerybuf(h) ==
    /\ hs[h].pc = "querybuf" /\ hs[h].kind = "stream"
    /\ LET s == Issue(hs[h], "QUERYBUF") IN
       \/ SetH(h, GotoCleanup(s, "querybuf", "ESP_FAIL"))
       \/ SetH(h, [s EXCEPT !.pc = "mmap"])
    /\ UNCHANGED <<lock, s_server, det, ctx, ctl, fmtvars>>

\* lines 362-370: mmap of index i; MAP_FAILED leaves addr NULL
StreamMmap(h) ==
    /\ hs[h].pc = "mmap" /\ hs[h].kind = "stream"
    /\ \/ SetH(h, GotoCleanup(hs[h], "mmap", "ESP_FAIL"))
       \/ SetH(h, [MmapOk(hs[h]) EXCEPT !.pc = "qbuf"])
    /\ UNCHANGED <<lock, s_server, det, ctx, ctl, fmtvars>>

\* The setup loop left for VIDIOC_STREAMON after its first buffer
StreamQbuf_EarlyStreamon(h) ==
    /\ hs[h].pc = "qbuf" /\ hs[h].kind = "stream"
    /\ LET s == Issue(hs[h], "QBUF") IN
       \/ SetH(h, GotoCleanup(s, "qbuf", "ESP_FAIL"))
       \/ SetH(h, [QbufOk(s, s.i) EXCEPT !.i = @ + 1, !.pc = "streamon"])
    /\ UNCHANGED <<lock, s_server, det, ctx, ctl, fmtvars>>

\* lines 372-377: VIDIOC_QBUF of index i, then the next index or the end
\* of the loop
StreamQbuf(h) ==
    /\ hs[h].pc = "qbuf" /\ hs[h].kind = "stream"
    /\ LET s == Issue(hs[h], "QBUF") IN
       \/ SetH(h, GotoCleanup(s, "qbuf", "ESP_FAIL"))
       \/ SetH(h, [QbufOk(s, s.i) EXCEPT
                     !.i = @ + 1,
                     !.pc = IF s.i + 1 < s.count THEN "querybuf"
                                                 ELSE "streamon"])
    /\ UNCHANGED <<lock, s_server, det, ctx, ctl, fmtvars>>

\* lines 379-386: VIDIOC_STREAMON
StreamStreamon(h) ==
    /\ hs[h].pc = "streamon" /\ hs[h].kind = "stream"
    /\ LET s == Issue(hs[h], "STREAMON") IN
       \/ SetH(h, GotoCleanup(s, "streamon", "ESP_FAIL"))
       \/ SetH(h, LoopTop(StreamOn(s)))
    /\ UNCHANGED <<lock, s_server, det, ctx, ctl, fmtvars>>

\* lines 388-402: VIDIOC_DQBUF; any failure, EINTR included, breaks the
\* loop; a buffer without V4L2_BUF_FLAG_DONE goes back at once
StreamDqbuf(h) ==
    /\ hs[h].pc = "dqbuf" /\ hs[h].kind = "stream"
    /\ LET s == Issue(hs[h], "DQBUF") IN
       \/ \E cause \in {"dq_eintr", "dq_err"} :
             SetH(h, GotoCleanup(s, cause, "ESP_FAIL"))
       \/ \E b \in s.queued, done \in BOOLEAN :
             SetH(h, [DqbufOk(s, b, done) EXCEPT
                        !.pc = IF done THEN "encode"
                                       ELSE "requeue_incomplete"])
    /\ UNCHANGED <<lock, s_server, det, ctx, ctl, fmtvars>>

\* A VIDIOC_QBUF of the buffer in hand whose result the code ignores
RequeueIgnored(s, ok) ==
    LET t == [Issue(s, "QBUF") EXCEPT !.pending = FALSE] IN
    IF ok THEN QbufOk(t, t.cur) ELSE t

\* lines 399-402
StreamRequeueIncomplete(h) ==
    /\ hs[h].pc = "requeue_incomplete"
    /\ \E ok \in BOOLEAN :
          SetH(h, LoopTop(RequeueIgnored(hs[h], ok)))
    /\ UNCHANGED <<lock, s_server, det, ctx, ctl, fmtvars>>

\* lines 404-410: jpeg_encode_frame reads buffers[buf.index]; when it
\* fails the buffer is queued back, ret = ESP_FAIL and the loop is left
StreamEncode(h) ==
    /\ hs[h].pc = "encode" /\ hs[h].kind = "stream"
    /\ \E ok \in BOOLEAN :
          IF jpeg_encode_frame(s_jpeg_state, ok) # "ESP_OK"
          THEN SetH(h, [hs[h] EXCEPT !.pc = "requeue_fail",
                                     !.exit_cause = "encode"])
          ELSE SetH(h, [hs[h] EXCEPT !.pc = "send_boundary"])
    /\ UNCHANGED <<lock, s_server, det, ctx, ctl, fmtvars>>

\* lines 412-416: the boundary chunk
StreamSendBoundary(h) ==
    /\ hs[h].pc = "send_boundary"
    /\ \/ SetH(h, [hs[h] EXCEPT !.pc = "requeue_fail",
                                !.exit_cause = "send"])
       \/ SetH(h, [hs[h] EXCEPT !.pc = "send_part", !.resp = "stream"])
    /\ UNCHANGED <<lock, s_server, det, ctx, ctl, fmtvars>>

\* lines 418-425: the part header and the JPEG payload
StreamSendPart(h) ==
    /\ hs[h].pc = "send_part"
    /\ \/ SetH(h, [hs[h] EXCEPT !.pc = "requeue_fail",
                                !.exit_cause = "send"])
       \/ SetH(h, [hs[h] EXCEPT !.pc = "requeue"])
    /\ UNCHANGED <<lock, s_server, det, ctx, ctl, fmtvars>>

\* The loop going on after the QBUF of a failed frame
StreamRequeueFail_Continue(h) ==
    /\ hs[h].pc = "requeue_fail"
    /\ \E ok \in BOOLEAN :
          SetH(h, LoopTop(RequeueIgnored(hs[h], ok)))
    /\ UNCHANGED <<lock, s_server, det, ctx, ctl, fmtvars>>

\* lines 407, 413, 422: QBUF, ret = ESP_FAIL, break
StreamRequeueFail(h) ==
    /\ hs[h].pc = "requeue_fail"
    /\ \E ok \in BOOLEAN :
          SetH(h, GotoCleanup(RequeueIgnored(hs[h], ok),
                              hs[h].exit_cause, "ESP_FAIL"))
    /\ UNCHANGED <<lock, s_server, det, ctx, ctl, fmtvars>>

\* lines 427-431: the requeue of a frame that was sent
StreamRequeue(h) ==
    /\ hs[h].pc = "requeue"
    /\ LET s == [Issue(hs[h], "QBUF") EXCEPT !.pending = FALSE] IN
       \/ SetH(h, GotoCleanup(s, "requeue", "ESP_FAIL"))
       \/ SetH(h, LoopTop(QbufOk(s, s.cur)))
    /\ UNCHANGED <<lock, s_server, det, ctx, ctl, fmtvars>>

\* stream_handler lines 435-438, capture_handler lines 534-537:
\* VIDIOC_STREAMOFF when the stream was started
HandlerStreamoff_Skip(h) ==
    /\ hs[h].pc = "cleanup"
    /\ \E ok \in BOOLEAN :
          SetH(h, [(IF hs[h].stream_started /\ hs[h].ret = "ESP_OK"
                    THEN StreamOff(hs[h], ok) ELSE hs[h])
                     EXCEPT !.pc = "unmap"])
    /\ UNCHANGED <<lock, s_server, det, ctx, ctl, fmtvars>>

HandlerStreamoff(h) ==
    /\ hs[h].pc = "cleanup"
    /\ \E ok \in BOOLEAN :
          SetH(h, [(IF hs[h].stream_started
                    THEN StreamOff(hs[h], ok) ELSE hs[h])
                     EXCEPT !.pc = "unmap"])
    /\ UNCHANGED <<lock, s_server, det, ctx, ctl, fmtvars>>

\* stream_handler lines 440-447: the unmap loop and free(buffers);
\* capture_handler lines 539-541: munmap of the one buffer
HandlerUnmap(h) ==
    /\ hs[h].pc = "unmap"
    /\ SetH(h, [(IF hs[h].kind = "capture" \/ hs[h].buffers
                 THEN UnmapLoop(hs[h]) ELSE hs[h])
                  EXCEPT !.buffers = FALSE, !.pc = "release"])
    /\ UNCHANGED <<lock, s_server, det, ctx, ctl, fmtvars>>

\* stream_handler lines 449-451, capture_handler lines 543-548:
\* camera_lock_release and return ret
HandlerRelease_Skip(h) ==
    /\ hs[h].pc = "release"
    /\ IF hs[h].exit_cause \notin {"reqbufs", "calloc"}
       THEN /\ camera_lock_release
            /\ SetH(h, Returned([hs[h] EXCEPT !.has_gate = FALSE,
                                              !.releases = @ + 1]))
       ELSE /\ lock' = lock
            /\ SetH(h, Returned(hs[h]))
    /\ UNCHANGED <<s_server, det, ctx, ctl, fmtvars>>

HandlerRelease(h) ==
    /\ hs[h].pc = "release"
    /\ camera_lock_release
    /\ SetH(h, Returned([hs[h] EXCEPT !.has_gate = FALSE,
                                      !.releases = @ + 1]))
    /\ UNCHANGED <<s_server, det, ctx, ctl, fmtvars>>

\* capture_handler lines 467-478: VIDIOC_REQBUFS for one buffer
CaptureReqbufs(h) ==
    /\ hs[h].pc = "reqbufs" /\ hs[h].kind = "capture"
    /\ \E n \in 0 .. CAPTURE_BUFFER_COUNT, ok \in BOOLEAN :
          LET s == Issue(hs[h], "REQBUFS") IN
          IF ~ok \/ n = 0
          THEN SetH(h, [GotoCleanup(s, "reqbufs", "ESP_FAIL")
                          EXCEPT !.resp = "500 Unable to alloc buffer"])
          ELSE SetH(h, [s EXCEPT !.count = n, !.i = 0, !.pc = "querybuf"])
    /\ UNCHANGED <<lock, s_server, det, ctx, ctl, fmtvars>>

\* lines 480-488: VIDIOC_QUERYBUF of index 0
CaptureQuerybuf(h) ==
    /\ hs[h].pc = "querybuf" /\ hs[h].kind = "capture"
    /\ LET s == Issue(hs[h], "QUERYBUF") IN
       \/ SetH(h, GotoCleanup(s, "querybuf", "ESP_FAIL"))
       \/ SetH(h, [s EXCEPT !.pc = "mmap"])
    /\ UNCHANGED <<lock, s_server, det, ctx, ctl, fmtvars>>

\* lines 490-497: mmap of the buffer
CaptureMmap(h) ==
    /\ hs[h].pc = "mmap" /\ hs[h].kind = "capture"
    /\ \/ SetH(h, GotoCleanup(hs[h], "mmap", "ESP_FAIL"))
       \/ SetH(h, [MmapOk(hs[h]) EXCEPT !.pc = "qbuf"])
    /\ UNCHANGED <<lock, s_server, det, ctx, ctl, fmtvars>>

\* lines 499-503: VIDIOC_QBUF of the buffer
CaptureQbuf(h) ==
    /\ hs[h].pc = "qbuf" /\ hs[h].kind = "capture"
    /\ LET s == Issue(hs[h], "QBUF") IN
       \/ SetH(h, GotoCleanup(s, "qbuf", "ESP_FAIL"))
       \/ SetH(h, [QbufOk(s, s.i) EXCEPT !.pc = "streamon"])
    /\ UNCHANGED <<lock, s_server, det, ctx, ctl, fmtvars>>

\* lines 505-511: VIDIOC_STREAMON
CaptureStreamon(h) ==
    /\ hs[h].pc = "streamon" /\ hs[h].kind = "capture"
    /\ LET s == Issue(hs[h], "STREAMON") IN
       \/ SetH(h, GotoCleanup(s, "streamon", "ESP_FAIL"))
       \/ SetH(h, LoopTop(StreamOn(s)))
    /\ UNCHANGED <<lock, s_server, det, ctx, ctl, fmtvars>>

\* lines 513-521: the one VIDIOC_DQBUF; the flags of the buffer are not
\* looked at
CaptureDqbuf(h) ==
    /\ hs[h].pc = "dqbuf" /\ hs[h].kind = "capture"
    /\ LET s == Issue(hs[h], "DQBUF") IN
       \/ \E cause \in {"dq_eintr", "dq_err"} :
             SetH(h, GotoCleanup(s, cause, "ESP_FAIL"))
       \/ \E b \in s.queued, done \in BOOLEAN :
             SetH(h, [DqbufOk(s, b, done) EXCEPT !.pc = "encode"])
    /\ UNCHANGED <<lock, s_server, det, ctx, ctl, fmtvars>>

\* The capture handler dequeuing again after a failed encode
CaptureEncode_Retry(h) ==
    /\ hs[h].pc = "encode" /\ hs[h].kind = "capture"
    /\ \E ok \in BOOLEAN :
          IF jpeg_encode_frame(s_jpeg_state, ok) # "ESP_OK"
          THEN SetH(h, LoopTop(hs[h]))
          ELSE SetH(h, [hs[h] EXCEPT !.pc = "send"])
    /\ UNCHANGED <<lock, s_server, det, ctx, ctl, fmtvars>>

\* lines 523-531: jpeg_encode_frame reads buffer.addr; on success the
\* image is sent and ret is the result of httpd_resp_send
CaptureEncode(h) ==
    /\ hs[h].pc = "encode" /\ hs[h].kind = "capture"
    /\ \E ok \in BOOLEAN :
          IF jpeg_encode_frame(s_jpeg_state, ok) # "ESP_OK"
          THEN SetH(h, GotoCleanup(hs[h], "encode", "ESP_FAIL"))
          ELSE SetH(h, [hs[h] EXCEPT !.pc = "send"])
    /\ UNCHANGED <<lock, s_server, det, ctx, ctl, fmtvars>>

CaptureSend(h) ==
    /\ hs[h].pc = "send"
    /\ \/ SetH(h, GotoCleanup(hs[h], "send", "ESP_FAIL"))
       \/ SetH(h, [GotoCleanup(hs[h], "complete", "ESP_OK")
                     EXCEPT !.resp = "jpeg"])
    /\ UNCHANGED <<lock, s_server, det, ctx, ctl, fmtvars>>

----------------------------------------------------------------------------
(* app_main.c *)

\* event_handler with the test of line 49 passing up to and including the
\* maximum
event_handler_state_OffByOne(w, ev) ==
    [ s_retry_num |->
         IF ev = "IP_EVENT_STA_GOT_IP" THEN 0
         ELSE IF /\ ev = "WIFI_EVENT_STA_DISCONNECTED"
                 /\ w.s_retry_num <= CONFIG_ESP_MAXIMUM_RETRY
         THEN w.s_retry_num + 1
         ELSE w.s_retry_num,
      bits |->
         IF ev = "IP_EVENT_STA_GOT_IP"
         THEN w.bits \cup {"WIFI_CONNECTED_BIT"}
         ELSE IF /\ ev = "WIFI_EVENT_STA_DISCONNECTED"
                 /\ ~(w.s_retry_num <= CONFIG_ESP_MAXIMUM_RETRY)
         THEN w.bits \cup {"WIFI_FAIL_BIT"}
         ELSE w.bits,
      event |-> ev,
      connect |->
         \/ ev = "WIFI_EVENT_STA_START"
         \/ /\ ev = "WIFI_EVENT_STA_DISCONNECTED"
            /\ w.s_retry_num <= CONFIG_ESP_MAXIMUM_RETRY,
      events |-> w.events + 1 ]

\* event_handler, lines 43-63, on the event ev: the start event calls
\* esp_wifi_connect (46-47); a disconnect below the maximum calls it and
\* counts the retry (49-52), at the maximum it sets WIFI_FAIL_BIT (54);
\* got-IP clears the counter and sets WIFI_CONNECTED_BIT (60-61); any other
\* event changes nothing.  xEventGroupSetBits adds the bit to those set.
event_handler_state(w, ev) ==
    [ s_retry_num |->
         IF ev = "IP_EVENT_STA_GOT_IP" THEN 0
         ELSE IF /\ ev = "WIFI_EVENT_STA_DISCONNECTED"
                 /\ w.s_retry_num < CONFIG_ESP_MAXIMUM_RETRY
         THEN w.s_retry_num + 1
         ELSE w.s_retry_num,
      bits |->
         IF ev = "IP_EVENT_STA_GOT_IP"
         THEN w.bits \cup {"WIFI_CONNECTED_BIT"}
         ELSE IF /\ ev = "WIFI_EVENT_STA_DISCONNECTED"
                 /\ ~(w.s_retry_num < CONFIG_ESP_MAXIMUM_RETRY)
         THEN w.bits \cup {"WIFI_FAIL_BIT"}
         ELSE w.bits,
      event |-> ev,
      connect |->
         \/ ev = "WIFI_EVENT_STA_START"
         \/ /\ ev = "WIFI_EVENT_STA_DISCONNECTED"
            /\ w.s_retry_num < CONFIG_ESP_MAXIMUM_RETRY,
      events |-> w.events + 1 ]

\* The event loop task calls event_handler with the next event
event_handler(ev) ==
    /\ wifi.events < MaxEvents
    /\ wifi' = event_handler_state(wifi, ev)
    /\ UNCHANGED <<lock, s_server, hs, det, ctx, ctl, device, isp,
                   s_stream_state, s_jpeg_state, start, cam, sensor, init>>

----------------------------------------------------------------------------
(* camera_init.c *)

\* The steps of camera_init that can fail
InitFailures ==
    {"i2c", "sccb", "detect", "query", "no_format", "set_format", "video",
     "open"}

\* The fail label, lines 181-196, reached with s_cam_dev detected (dev),
\* the SCCB handle created (sccb) and the I2C bus created
camera_init_fail(c, dev, sccb) ==
    [c EXCEPT !.cam_dev = FALSE, !.sccb_handle = FALSE, !.i2c_bus = FALSE,
              !.calls = {x \in {"esp_cam_sensor_del_dev"} : dev}
                          \cup {x \in {"esp_sccb_del_i2c_io"} : sccb}
                          \cup {"i2c_del_master_bus"}]

\* camera_init, lines 42-197: fail is the step that fails, if any
camera_init_state(c, fail) ==
    IF c.cam_dev THEN c
    ELSE IF fail = "i2c" THEN [c EXCEPT !.calls = {}]
    ELSE IF fail = "sccb" THEN camera_init_fail(c, FALSE, FALSE)
    ELSE IF fail = "detect"
    THEN [c EXCEPT !.calls = {"i2c_del_master_bus"}]
    ELSE IF fail \in {"query", "no_format", "set_format"}
    THEN camera_init_fail(c, TRUE, TRUE)
    ELSE IF fail = "video" /\ ~c.video_initialized
    THEN camera_init_fail(c, TRUE, TRUE)
    ELSE IF fail = "open"
    THEN [camera_init_fail(c, TRUE, TRUE) EXCEPT
            !.video_initialized = TRUE, !.video_fd = FALSE]
    ELSE [c EXCEPT !.cam_dev = TRUE, !.i2c_bus = TRUE, !.sccb_handle = TRUE,
                   !.video_initialized = TRUE, !.video_fd = TRUE,
                   !.calls = {}]

\* The selection loop, lines 109-127, from index i of the array arr with
\* selected_format at index selected (0 is NULL): the index of
\* selected_format at line 129
RECURSIVE select_format(_, _, _, _, _)
select_format(arr, i, selected, desired_width, desired_height) ==
    IF i > Len(arr) THEN selected
    ELSE LET fmt == arr[i] IN
         IF fmt.pixformat # "RAW10"
         THEN select_format(arr, i + 1, selected,
                            desired_width, desired_height)
         ELSE IF /\ desired_width > 0 /\ desired_height > 0
                 /\ fmt.width = desired_width
                 /\ fmt.height = desired_height
         THEN i
         ELSE select_format(arr, i + 1,
                            IF selected = 0 THEN i ELSE selected,
                            desired_width, desired_height)

\* The loop without the test of line 119: the first RAW10 format whatever
\* the configured resolution
selected_format_FirstRaw10(s) ==
    select_format(s.format_array, 1, 0, 0, 0)

\* Lines 98-99 and 109: the loop entered with selected_format = NULL and
\* the configured resolution
selected_format(s) ==
    select_format(s.format_array, 1, 0, s.desired_width, s.desired_height)

\* The step that ends camera_init on the sensor s when the calls up to
\* fail succeed: the selection fails at line 129 when the loop has
\* selected nothing, and esp_video_init is only called, and so can only
\* fail, when the video subsystem is not initialised (line 146)
camera_init_step(c, s, fail) ==
    IF c.cam_dev THEN "already"
    ELSE IF fail \in {"i2c", "sccb", "detect", "query"} THEN fail
    ELSE IF selected_format(s) = 0 THEN "no_format"
    ELSE IF fail = "video" /\ c.video_initialized THEN "none"
    ELSE fail

\* The value camera_init returns: s_cam_dev at lines 46 and 179, NULL at
\* lines 59, 92 and 196
camera_init_returns(step) ==
    IF step \in {"already", "none"} THEN "dev" ELSE "NULL"

\* What a call of camera_init that ends at step has acquired by then: the
\* I2C bus (line 56), the SCCB handle (line 71), the sensor device (line 88)
camera_init_acquired(step) ==
    IF step \in {"already", "i2c"} THEN {}
    ELSE IF step = "sccb" THEN {"i2c_bus"}
    ELSE IF step = "detect" THEN {"i2c_bus", "sccb_handle"}
    ELSE {"i2c_bus", "sccb_handle", "cam_dev"}

\* What the release calls of the set calls delete
camera_init_released(calls) ==
    {x \in {"cam_dev"} : "esp_cam_sensor_del_dev" \in calls}
       \cup {x \in {"sccb_handle"} : "esp_sccb_del_i2c_io" \in calls}
       \cup {x \in {"i2c_bus"} : "i2c_del_master_bus" \in calls}

\* What a call of camera_init that ends at step leaves allocated with no
\* static pointing to it, after being the statics it returns with
camera_init_leaked(step, after) ==
    {r \in camera_init_acquired(step) :
        /\ r \notin camera_init_released(after.calls)
        /\ ~after[r]}

\* camera_init called while the calls it makes may fail at one of the steps
\* fails ("none": each of them succeeds).  esp_video_init (line 163)
\* creates the video device, in the format the sensor was set to (line 137)
camera_init_on(fails) ==
    /\ \E fail \in fails :
          LET step == camera_init_step(cam, sensor, fail)
              after == camera_init_state(cam, step)
          IN
          /\ cam' = after
          /\ init' = [ step |-> step,
                       ret |-> camera_init_returns(step),
                       selected |->
                          IF step \in {"no_format", "set_format", "video",
                                       "open", "none"}
                          THEN selected_format(sensor) ELSE 0,
                       leaked |-> camera_init_leaked(step, after) ]
          /\ device' = IF ~cam.cam_dev /\ ~cam.video_initialized
                          /\ step \in {"open", "none"}
                       THEN sensor.format_array[selected_format(sensor)]
                       ELSE device
    /\ UNCHANGED <<lock, s_server, hs, det, ctx, ctl, isp, s_stream_state,
                   s_jpeg_state, start, sensor, wifi>>

\* The steps camera_init fails at before the sensor is detected, at the
\* detection, after it, and after esp_video_init, and no failure
TeardownFailures == {"i2c", "detect", "set_format", "open", "none"}

\* camera_init with any of its calls failing
camera_init ==
    camera_init_on((InitFailures \ {"no_format"}) \cup {"none"})

\* camera_deinit, lines 221-249: the calls it issues
camera_deinit_calls(c) ==
    {x \in {"close"} : c.video_fd}
       \cup {x \in {"esp_cam_sensor_del_dev"} : c.cam_dev}
       \cup {x \in {"esp_sccb_del_i2c_io"} : c.sccb_handle}
       \cup {x \in {"i2c_del_master_bus"} : c.i2c_bus}
       \cup {x \in {"esp_video_deinit"} : c.video_initialized}

\* camera_deinit: every static that is set is released and cleared
camera_deinit_state(c) ==
    [ cam_dev |-> IF c.cam_dev THEN FALSE ELSE c.cam_dev,
      video_fd |-> IF c.video_fd THEN FALSE ELSE c.video_fd,
      i2c_bus |-> IF c.i2c_bus THEN FALSE ELSE c.i2c_bus,
      sccb_handle |-> IF c.sccb_handle THEN FALSE ELSE c.sccb_handle,
      video_initialized |->
         IF c.video_initialized THEN FALSE ELSE c.video_initialized,
      calls |-> camera_deinit_calls(c) ]

camera_deinit ==
    /\ cam' = camera_deinit_state(cam)
    /\ init' = [ step |-> "deinit", ret |-> "none", selected |-> 0,
                 leaked |-> {} ]
    /\ UNCHANGED <<lock, s_server, hs, det, ctx, ctl, device, isp,
                   s_stream_state, s_jpeg_state, start, sensor, wifi>>

----------------------------------------------------------------------------
(* face_detect_task.cpp *)

DetUnchanged ==
    UNCHANGED <<lock, s_server, hs, ctl, isp, s_stream_state, s_jpeg_state,
                start, cam, sensor, init, wifi>>

\* configure_camera_device lines 66-68: ctx.width, ctx.height and
\* ctx.pixformat take the format
StoreFormat(c, f) ==
    [c EXCEPT !.width = f.width, !.height = f.height,
              !.pixformat = f.pixformat]

\* detection_task lines 192-199 and configure_camera_device lines 50-64:
\* the detector check and VIDIOC_G_FMT
DetGfmt ==
    /\ det.pc = "begin"
    /\ IF ~ctx.detector
       THEN /\ det' = GotoCleanup(det, "detector", "none")
            /\ UNCHANGED ctx
       ELSE LET s == Issue(det, "G_FMT") IN
            \E ok \in BOOLEAN :
               IF ~ok
               THEN /\ det' = GotoCleanup(s, "gfmt", "ESP_FAIL")
                    /\ UNCHANGED ctx
               ELSE IF device.pixformat = "RGB565"
               THEN /\ det' = [s EXCEPT !.pc = "reqbufs"]
                    /\ ctx' = StoreFormat(ctx, device)
               ELSE /\ det' = [s EXCEPT !.pc = "sfmt", !.fmt = device]
                    /\ UNCHANGED ctx
    /\ UNCHANGED device /\ DetUnchanged

\* configure_camera_device lines 57-64: VIDIOC_S_FMT to RGB565
DetSfmt ==
    /\ det.pc = "sfmt"
    /\ LET s == Issue(det, "S_FMT")
           rgb_fmt == [det.fmt EXCEPT !.pixformat = "RGB565"]
       IN
       \/ /\ det' = [GotoCleanup(s, "sfmt", "ESP_FAIL") EXCEPT !.fmt = NoFmt]
          /\ UNCHANGED <<ctx, device>>
       \/ /\ det' = [s EXCEPT !.pc = "reqbufs", !.fmt = NoFmt]
          /\ device' = rgb_fmt
          /\ ctx' = StoreFormat(ctx, rgb_fmt)
    /\ DetUnchanged

\* init_v4l2_buffers lines 77-87: VIDIOC_REQBUFS and buffers.resize
DetReqbufs ==
    /\ det.pc = "reqbufs"
    /\ \E n \in 0 .. FaceDetBufferCount, ok \in BOOLEAN :
          LET s == Issue(det, "REQBUFS") IN
          det' = IF ~ok \/ n = 0
                 THEN GotoCleanup(s, "reqbufs", "ESP_FAIL")
                 ELSE [s EXCEPT !.count = n, !.buffers = TRUE, !.i = 0,
                                !.pc = "querybuf"]
    /\ UNCHANGED <<ctx, device>> /\ DetUnchanged

\* lines 88-97: VIDIOC_QUERYBUF of index i
DetQuerybuf ==
    /\ det.pc = "querybuf"
    /\ LET s == Issue(det, "QUERYBUF") IN
       \/ det' = GotoCleanup(s, "querybuf", "ESP_FAIL")
       \/ det' = [s EXCEPT !.pc = "mmap"]
    /\ UNCHANGED <<ctx, device>> /\ DetUnchanged

\* lines 99-106: mmap of index i; MAP_FAILED leaves addr nullptr
DetMmap ==
    /\ det.pc = "mmap"
    /\ \/ det' = GotoCleanup(det, "mmap", "ESP_FAIL")
       \/ det' = [MmapOk(det) EXCEPT !.pc = "qbuf"]
    /\ UNCHANGED <<ctx, device>> /\ DetUnchanged

\* lines 108-114: VIDIOC_QBUF of index i, then the next index
DetQbuf ==
    /\ det.pc = "qbuf"
    /\ LET s == Issue(det, "QBUF") IN
       \/ det' = GotoCleanup(s, "qbuf", "ESP_FAIL")
       \/ det' = [QbufOk(s, s.i) EXCEPT
                    !.i = @ + 1,
                    !.pc = IF s.i + 1 < s.count THEN "querybuf"
                                                ELSE "streamon"]
    /\ UNCHANGED <<ctx, device>> /\ DetUnchanged

\* detection_task lines 205-217: VIDIOC_STREAMON
DetStreamon ==
    /\ det.pc = "streamon"
    /\ LET s == Issue(det, "STREAMON") IN
       \/ det' = GotoCleanup(s, "streamon", "ESP_FAIL")
       \/ det' = [StreamOn(s) EXCEPT !.pc = "loop"]
    /\ UNCHANGED <<ctx, device>> /\ DetUnchanged

\* line 219: while (!ctx->should_stop), then lines 220-222
DetLoop ==
    /\ det.pc = "loop"
    /\ det' = IF ctx.should_stop THEN GotoCleanup(det, "stop", "none")
                                 ELSE LoopTop(det)
    /\ UNCHANGED <<ctx, device>> /\ DetUnchanged

\* lines 224-233: VIDIOC_DQBUF; EINTR continues the loop, any other
\* failure breaks it; the flags of the buffer are not looked at
DetDqbuf ==
    /\ det.pc = "dqbuf"
    /\ LET s == Issue(det, "DQBUF") IN
       \/ det' = [s EXCEPT !.pc = "loop"]
       \/ det' = GotoCleanup(s, "dq_err", "none")
       \/ \E b \in s.queued, done \in BOOLEAN :
             det' = [DqbufOk(s, b, done) EXCEPT !.pc = "detect"]
    /\ UNCHANGED <<ctx, device>> /\ DetUnchanged

\* lines 235-249: detector->run reads buffers.at(buf.index)
DetDetect ==
    /\ det.pc = "detect"
    /\ det' = [det EXCEPT !.pc = "requeue"]
    /\ UNCHANGED <<ctx, device>> /\ DetUnchanged

\* lines 251-267: the requeue, then the frame interval
DetRequeue ==
    /\ det.pc = "requeue"
    /\ LET s == [Issue(det, "QBUF") EXCEPT !.pending = FALSE] IN
       \/ det' = GotoCleanup(s, "requeue", "none")
       \/ det' = [QbufOk(s, s.cur) EXCEPT !.pc = "loop", !.cur = NoBuf,
                                          !.cur_done = FALSE]
    /\ UNCHANGED <<ctx, device>> /\ DetUnchanged

\* lines 271-275: VIDIOC_STREAMOFF when the stream was started
DetStreamoff ==
    /\ det.pc = "cleanup"
    /\ \E ok \in BOOLEAN :
          det' = [(IF det.stream_started THEN StreamOff(det, ok) ELSE det)
                    EXCEPT !.stream_started = FALSE,
                           !.pc = "release_buffers"]
    /\ UNCHANGED <<ctx, device>> /\ DetUnchanged

\* release_buffers, lines 117-127: munmap of every buffer whose addr is
\* set, then buffers.clear()
release_buffers(s) ==
    [UnmapLoop(s) EXCEPT !.buffers = FALSE]

\* line 276
DetReleaseBuffers ==
    /\ det.pc = "release_buffers"
    /\ det' = [release_buffers(det) EXCEPT !.pc = "exit"]
    /\ UNCHANGED <<ctx, device>> /\ DetUnchanged

\* lines 277-281: delete the detector and clear task_handle
DetExit ==
    /\ det.pc = "exit"
    /\ det' = NewSession("detect", "clear_running")
    /\ ctx' = [ctx EXCEPT !.detector = FALSE, !.task_handle = FALSE]
    /\ UNCHANGED device /\ DetUnchanged

\* lines 282-283: running = false and vTaskDelete
DetClearRunning ==
    /\ det.pc = "clear_running"
    /\ det' = NewSession("detect", "none")
    /\ ctx' = [ctx EXCEPT !.running = FALSE]
    /\ UNCHANGED device /\ DetUnchanged

\* face_detect_start lines 302-304: the context takes the arguments
StoreArgs(c, camera_fd, mqtt_client) ==
    [c EXCEPT !.camera_fd = camera_fd, !.mqtt_client = mqtt_client,
              !.should_stop = FALSE]

\* face_detect_start with the arguments stored before the two checks
face_detect_start_StoreFirst(camera_fd, mqtt_client) ==
    /\ ctl.pc = "idle"
    /\ \E created \in BOOLEAN :
          IF camera_fd < 0
          THEN /\ ctl' = [ctl EXCEPT !.ret = "ESP_ERR_INVALID_ARG"]
               /\ ctx' = StoreArgs(ctx, camera_fd, mqtt_client)
               /\ UNCHANGED det
          ELSE IF ctx.running
          THEN /\ ctl' = [ctl EXCEPT !.ret = "ESP_ERR_INVALID_STATE"]
               /\ ctx' = StoreArgs(ctx, camera_fd, mqtt_client)
               /\ UNCHANGED det
          ELSE IF ~created
          THEN /\ ctl' = [ctl EXCEPT !.ret = "ESP_FAIL"]
               /\ ctx' = [StoreArgs(ctx, camera_fd, mqtt_client)
                            EXCEPT !.detector = FALSE]
               /\ UNCHANGED det
          ELSE /\ ctl' = [pc |-> "created", ret |-> "none"]
               /\ ctx' = [StoreArgs(ctx, camera_fd, mqtt_client)
                            EXCEPT !.detector = TRUE, !.task_handle = TRUE]
               /\ det' = NewSession("detect", "begin")
    /\ UNCHANGED <<lock, s_server, hs, fmtvars>>

\* face_detect_start lines 295-324, up to the creation of the task
face_detect_start(camera_fd, mqtt_client) ==
    /\ ctl.pc = "idle"
    /\ \E created \in BOOLEAN :
          IF camera_fd < 0
          THEN /\ ctl' = [ctl EXCEPT !.ret = "ESP_ERR_INVALID_ARG"]
               /\ UNCHANGED <<ctx, det>>
          ELSE IF ctx.running
          THEN /\ ctl' = [ctl EXCEPT !.ret = "ESP_ERR_INVALID_STATE"]
               /\ UNCHANGED <<ctx, det>>
          ELSE IF ~created
          THEN /\ ctl' = [ctl EXCEPT !.ret = "ESP_FAIL"]
               /\ ctx' = [StoreArgs(ctx, camera_fd, mqtt_client)
                            EXCEPT !.detector = FALSE]
               /\ UNCHANGED det
          ELSE /\ ctl' = [pc |-> "created", ret |-> "none"]
               /\ ctx' = [StoreArgs(ctx, camera_fd, mqtt_client)
                            EXCEPT !.detector = TRUE, !.task_handle = TRUE]
               /\ det' = NewSession("detect", "begin")
    /\ UNCHANGED <<lock, s_server, hs, fmtvars>>

\* face_detect_start lines 326-328
face_detect_start_running ==
    /\ ctl.pc = "created"
    /\ ctx' = [ctx EXCEPT !.running = TRUE]
    /\ ctl' = [pc |-> "idle", ret |-> "ESP_OK"]
    /\ UNCHANGED <<lock, s_server, hs, det, fmtvars>>

\* face_detect_stop lines 335-340; with no task handle it goes on to line
\* 345 and returns
face_detect_stop ==
    /\ ctl.pc = "idle"
    /\ IF ~ctx.running
       THEN /\ ctl' = [ctl EXCEPT !.ret = "stop: not running"]
            /\ UNCHANGED ctx
       ELSE IF ctx.task_handle
       THEN /\ ctx' = [ctx EXCEPT !.should_stop = TRUE]
            /\ ctl' = [pc |-> "stopping", ret |-> "none"]
       ELSE /\ ctx' = [ctx EXCEPT !.should_stop = TRUE,
                                  !.mqtt_client = NoClient]
            /\ ctl' = [pc |-> "idle", ret |-> "stopped"]
    /\ UNCHANGED <<lock, s_server, hs, det, fmtvars>>

\* face_detect_stop lines 341-345: the poll of running, then
\* mqtt_client = nullptr
face_detect_stop_wait ==
    /\ ctl.pc = "stopping"
    /\ ~ctx.running
    /\ ctl' = [pc |-> "idle", ret |-> "stopped"]
    /\ ctx' = [ctx EXCEPT !.mqtt_client = NoClient]
    /\ UNCHANGED <<lock, s_server, hs, det, fmtvars>>

\* The steps of the detection task
DetTask ==
    \/ DetGfmt
    \/ DetSfmt
    \/ DetReqbufs
    \/ DetQuerybuf
    \/ DetMmap
    \/ DetQbuf
    \/ DetStreamon
    \/ DetLoop
    \/ DetDqbuf
    \/ DetDetect
    \/ DetRequeue
    \/ DetStreamoff
    \/ DetReleaseBuffers
    \/ DetExit
    \/ DetClearRunning

\* The calls of face_detect_start and face_detect_stop by one task, with
\* the arguments drawn from fds and clients
DetCalls(fds, clients) ==
    \/ \E camera_fd \in fds, mqtt_client \in clients :
          face_detect_start(camera_fd, mqtt_client)
    \/ face_detect_start_running
    \/ face_detect_stop
    \/ face_detect_stop_wait

\* The detection task and its caller, which passes the one open camera
\* descriptor or a negative one, and the one MQTT client
DetStep ==
    \/ DetTask
    \/ DetCalls({NoFd, 1}, {1})

\* The steps of a handler that is not kept waiting for the gate
HandlerServe(h) ==
    \/ HandlerEnter(h)
    \/ HandlerGranted(h)
    \/ StreamReqbufs(h)
    \/ StreamCalloc(h)
    \/ StreamQuerybuf(h)
    \/ StreamMmap(h)
    \/ StreamQbuf(h)
    \/ StreamStreamon(h)
    \/ StreamDqbuf(h)
    \/ StreamRequeueIncomplete(h)
    \/ StreamEncode(h)
    \/ StreamSendBoundary(h)
    \/ StreamSendPart(h)
    \/ StreamRequeueFail(h)
    \/ StreamRequeue(h)
    \/ CaptureReqbufs(h)
    \/ CaptureQuerybuf(h)
    \/ CaptureMmap(h)
    \/ CaptureQbuf(h)
    \/ CaptureStreamon(h)
    \/ CaptureDqbuf(h)
    \/ CaptureEncode(h)
    \/ CaptureSend(h)
    \/ HandlerStreamoff(h)
    \/ HandlerUnmap(h)
    \/ HandlerRelease(h)

HandlerStep(h) ==
    \/ HandlerServe(h)
    \/ HandlerDenied(h)

\* The whole system: every HTTP context and the detection task
Next ==
    \/ FirstStart
    \/ camera_server_stop
    \/ \E h \in Handlers : HandlerStep(h)
    \/ DetStep

Spec == Init /\ [][Next]_vars

\* The HTTP server alone: NumHandlers requests served at the same time
NextHttp ==
    \/ FirstStart
    \/ \E h \in Handlers : HandlerStep(h)

SpecHttp == Init /\ [][NextHttp]_vars

\* One HTTP request at a time beside the detection task
NextSessions ==
    \/ FirstStart
    \/ HandlerServe(1)
    \/ DetStep

SpecSessions == Init /\ [][NextSessions]_vars

\* Calls of camera_server_start and camera_server_stop alone, the device
\* in any format
NextStart ==
    \/ FirstStart
    \/ camera_server_stop

SpecStart == InitAnyFormat /\ [][NextStart]_vars

\* The HTTP server with calls of camera_lock_release while the gate is free
NextGate ==
    \/ NextHttp
    \/ \E h \in Handlers : StrayRelease(h)

SpecGate == Init /\ [][NextGate]_vars

\* The sessions one after the other: a request is served while no
\* detection task exists, and detection is started and runs while no
\* request is being served
NextSolo ==
    \/ FirstStart
    \/ det.pc = "none" /\ ctl.pc = "idle" /\ HandlerServe(1)
    \/ hs[1].pc \in {"idle", "done"} /\ DetStep

SpecSolo == Init /\ [][NextSolo]_vars

\* Calls of camera_server_start and camera_server_stop in any order, also
\* camera_server_start while the server runs, the device changing format
\* between the calls as VIDIOC_S_FMT succeeds or fails
NextRestart ==
    \/ camera_server_start
    \/ camera_server_stop

SpecRestart == InitAnyFormat /\ [][NextRestart]_vars

\* The life cycle of the application around the three teardown functions:
\* the server is started on an open camera (app_main.c lines 198-213),
\* detection runs while the server is up, the server is stopped when no
\* detection task runs or the task has released its buffers, and the
\* camera is released and initialised again while the server is down.
\* camera_init is called while no camera is open, and fails at a step of
\* TeardownFailures or succeeds: one step for each set of statics and
\* release calls a failed call can leave
NextTeardown ==
    \/ ~s_server /\ ~cam.cam_dev /\ camera_init_on(TeardownFailures)
    \/ ~s_server /\ camera_deinit
    \/ cam.video_fd /\ FirstStart
    \/ det.pc \in {"none", "exit"} /\ camera_server_stop
    \/ s_server /\ DetStep

SpecTeardown == Init /\ [][NextTeardown]_vars

\* camera_init.c alone, from its static initialisers: calls of camera_init
\* and camera_deinit in any order, on a sensor that reports any format
\* array, the build configured with any desired resolution
InitCamera ==
    /\ InitStatics({SensorFormat}, {[width |-> 0, height |-> 0]})
    /\ cam = NoCamera
    /\ sensor \in [ format_array : FormatArrays,
                     desired_width : 0 .. MaxDim,
                     desired_height : 0 .. MaxDim ]
    /\ init = [ step |-> "none", ret |-> "none", selected |-> 0,
                leaked |-> {} ]

NextCamera ==
    \/ camera_init
    \/ camera_deinit

SpecCamera == InitCamera /\ [][NextCamera]_vars

\* camera_init on a sensor that answers every call: the call ends at the
\* selection of the format or returns the device
NextSelect ==
    \/ camera_init_on({"none"})
    \/ camera_deinit

SpecSelect == InitCamera /\ [][NextSelect]_vars

\* The Wi-Fi events alone, in any order
NextWifi ==
    \E ev \in WifiEvents : event_handler(ev)

SpecWifi == Init /\ [][NextWifi]_vars

\* The detection task and its caller alone, the caller passing any
\* descriptor and any MQTT handle
NextDetect ==
    \/ DetTask
    \/ DetCalls(Fds, Clients)

SpecDetect == Init /\ [][NextDetect]_vars

\* The scheduler runs the detection task whenever it is ready (each of its
\* device calls returns), and vTaskDelay returns to the poll of
\* face_detect_stop
SpecDetectFair ==
    SpecDetect /\ WF_vars(DetTask) /\ WF_vars(face_detect_stop_wait)

----------------------------------------------------------------------------
(* Properties *)

\* The contexts that run sessions: the HTTP contexts and, as 0, the
\* detection task
Procs == Handlers \cup {0}
Sess(p) == IF p = 0 THEN det ELSE hs[p]

\* The session of p has issued a device ioctl and has not finished its
\* teardown
Executing(p) ==
    /\ Sess(p).touched
    /\ Sess(p).pc \notin {"idle", "done", "none", "release", "exit"}

TeardownPcs == {"cleanup", "unmap", "release", "release_buffers", "exit"}
LoopPcs ==
    {"dqbuf", "requeue_incomplete", "encode", "send_boundary", "send_part",
     "send", "requeue", "requeue_fail", "loop", "detect"}
ProcessingPcs ==
    {"requeue_incomplete", "encode", "send_boundary", "send_part", "send",
     "requeue", "requeue_fail", "detect"}

\* The buffer the consumer reads: buffers[buf.index] in the stream handler
\* and the detection task, the one buffer in the capture handler
ReadIdx(s) == IF s.kind = "capture" THEN 0 ELSE s.cur

\* C1: at most one capture session (stream, capture or detection) executes
\* against the capture device at any instant.
C1_OneSessionAtATime ==
    Cardinality({p \in Procs : Executing(p)}) <= 1

\* C2: two session-start attempts never both hold the gate: a handler is
\* granted the gate only when no handler holds it, and is denied only while
\* another handler holds it.
C2_GateExclusive ==
    /\ [](/\ Cardinality({h \in Handlers : hs[h].has_gate}) <= 1
          /\ \A h \in Handlers : hs[h].has_gate => lock.holder = h)
    /\ [][\A h \in Handlers :
            (hs[h].pc = "acquire" /\ hs'[h] # hs[h]) =>
               IF hs'[h].has_gate
               THEN \A g \in Handlers : ~hs[g].has_gate
               ELSE \E g \in Handlers \ {h} : hs[g].has_gate]_vars

C2_Witness ==
    \E h \in Handlers, g \in Handlers :
       /\ h # g
       /\ hs[h].pc = "done" /\ hs[h].releases = 1
       /\ hs[g].has_gate /\ hs[g].pc = "dqbuf"

\* C3: in every session, whatever step ended it, the teardown issues one
\* munmap for every successful mmap: no region is unmapped twice or
\* without having been mapped, and none is left mapped.
C3_UnmapsMatchMaps ==
    \A p \in Procs :
       LET s == Sess(p) IN
       /\ \A b \in BufIdx : s.unmaps[b] <= s.maps[b] /\ s.maps[b] <= 1
       /\ s.mapped = {b \in BufIdx : s.maps[b] - s.unmaps[b] = 1}
       /\ s.pc \in {"release", "exit"} =>
             /\ \A b \in BufIdx : s.unmaps[b] = s.maps[b]
             /\ s.mapped = {}

C3_Witness ==
    \E h \in Handlers :
       /\ hs[h].pc = "release" /\ hs[h].exit_cause = "send"
       /\ \A b \in 0 .. (STREAM_BUFFER_COUNT - 1) :
             hs[h].maps[b] = 1 /\ hs[h].unmaps[b] = 1

\* C4: a handler that was granted the gate calls camera_lock_release
\* exactly once before it returns, on every exit path, and a handler that
\* was denied the gate never calls it.
C4_ReleaseOncePerGrant ==
    \A h \in Handlers :
       LET s == hs[h] IN
       /\ s.releases <= 1
       /\ s.pc = "done" =>
             /\ ~s.has_gate
             /\ s.releases = IF s.resp = "500 Camera busy" THEN 0 ELSE 1
       /\ s.pc \notin {"idle", "acquire", "done"} =>
             s.has_gate /\ s.releases = 0

C4_Witness ==
    \E h \in Handlers :
       /\ hs[h].pc = "done" /\ hs[h].releases = 1
       /\ hs[h].resp = "stream" /\ hs[h].ret = "ESP_FAIL"

SetupFailures == {"querybuf", "mmap", "qbuf"}

\* What C6 says of a handler whose setup failed at index i and whose
\* teardown has run, up to the release of the gate
RolledBack(h, unmapped) ==
    /\ \A b \in BufIdx : hs[h].unmaps[b] = IF b \in unmapped THEN 1 ELSE 0
    /\ hs[h].mapped = {}
    /\ ~hs[h].streamon /\ ~hs[h].stream_started
    /\ hs'[h] # hs[h] =>
          /\ hs'[h].pc = "done" /\ hs'[h].releases = 1 /\ ~hs'[h].has_gate
          /\ lock'.holder = 0

\* C6 as stated: when querying, mapping or queueing index k fails, exactly
\* the indices 0..k-1 are unmapped, the pool ends empty, stream-on is never
\* issued and the gate is released before the handler returns.
C6_Original ==
    [][\A h \in Handlers :
         (hs[h].pc = "release" /\ hs[h].exit_cause \in SetupFailures) =>
            RolledBack(h, {b \in BufIdx : b < hs[h].i})]_vars

\* C6 amended: when querying or mapping index k fails exactly 0..k-1 are
\* unmapped, and when queueing index k fails exactly 0..k are (index k was
\* mapped); the pool ends empty, stream-on is never issued and the gate is
\* released before the handler returns.
C6_SetupFailureRollback ==
    [][\A h \in Handlers :
         (hs[h].pc = "release" /\ hs[h].exit_cause \in SetupFailures) =>
            RolledBack(h, {b \in BufIdx :
                             \/ b < hs[h].i
                             \/ b = hs[h].i /\ hs[h].exit_cause = "qbuf"})]_vars

C6_Witness ==
    \E h \in Handlers :
       /\ hs[h].pc = "release" /\ hs[h].exit_cause = "mmap" /\ hs[h].i = 2
       /\ hs[h].unmaps[0] = 1 /\ hs[h].unmaps[1] = 1 /\ hs[h].unmaps[2] = 0

\* C7: a request that finds the gate held for the whole wait ends with
\* 500 "Camera busy"; it issues no ioctl, maps and unmaps nothing, does not
\* release the gate, and leaves the gate and every other session as they
\* were.
C7_BusyDenied ==
    /\ [](\A h \in Handlers :
            /\ (hs[h].pc = "done" /\ hs[h].resp = "500 Camera busy") =>
                  /\ hs[h].ret = "ESP_FAIL" /\ ~hs[h].touched
                  /\ hs[h].releases = 0
            /\ hs[h].has_gate => lock.holder = h)
    /\ [][\A h \in Handlers :
            (hs[h].pc = "acquire" /\ hs'[h] # hs[h] /\ ~hs'[h].has_gate) =>
               /\ hs'[h].pc = "done" /\ hs'[h].resp = "500 Camera busy"
               /\ hs[h].maps = ZeroCount /\ hs[h].unmaps = ZeroCount
               /\ lock' = lock /\ det' = det
               /\ \A g \in Handlers \ {h} : hs'[g] = hs[g]]_vars

C7_Witness ==
    \E h \in Handlers, g \in Handlers :
       /\ hs[h].pc = "done" /\ hs[h].resp = "500 Camera busy"
       /\ hs[h].kind = "capture"
       /\ hs[g].kind = "stream" /\ hs[g].pc = "send_part"
       /\ hs[g].stream_started /\ lock.holder = g

\* C8: in every session type a dequeued buffer is queued back before the
\* session issues another dequeue or enters teardown.
C8_EveryDequeuedRequeued ==
    \A p \in Procs : Sess(p).pending => Sess(p).pc \in ProcessingPcs

\* C9: in every session type a dequeued buffer without the done flag is
\* never handed to the encoder or the detector.
C9_IncompleteNeverProcessed ==
    \A p \in Procs : Sess(p).pc \in {"encode", "detect"} => Sess(p).cur_done

\* C10: in every session an interrupted dequeue (EINTR) is retried in
\* place and never ends the session; any other dequeue failure ends the
\* loop and proceeds to teardown.
C10_InterruptedDequeueRetried ==
    \A p \in Procs :
       /\ Sess(p).exit_cause # "dq_eintr"
       /\ Sess(p).exit_cause = "dq_err" => Sess(p).pc \in TeardownPcs

\* C11: in a streaming session with a configured encoder, a frame whose
\* encode fails is dropped and the loop goes on: no streaming session ends
\* because jpeg_encode_frame failed.
C11_EncodeErrorDropsFrame ==
    \A h \in Handlers :
       (s_jpeg_state.initialized /\ hs[h].kind = "stream"
          /\ hs[h].pc \in TeardownPcs) => hs[h].exit_cause # "encode"

\* The context p holds the gate: only the handlers call
\* camera_lock_acquire, so only a handler can
GateHeldBy(p) == lock.exists /\ p \in Handlers /\ lock.holder = p

\* The context that takes a step which changes the format: the detection
\* task (0) when its position moves, otherwise the caller of
\* camera_server_start (NumHandlers + 1)
FormatMutator == IF det' # det THEN 0 ELSE NumHandlers + 1

\* C12: the format of the device and the stored width, height and pixel
\* format (s_stream_state, s_ctx) change only in a step of a context that
\* holds the gate.
C12_FormatMutatedUnderGate ==
    [][(\/ device' # device
        \/ s_stream_state' # s_stream_state
        \/ <<ctx.width, ctx.height, ctx.pixformat>>' #
              <<ctx.width, ctx.height, ctx.pixformat>>)
          => GateHeldBy(FormatMutator)]_vars

\* C13: at the end of every session's teardown, after stream-off and the
\* unmapping, the buffers the session requested have been released: the
\* device holds none of them for it.
C13_BufferRequestReleased ==
    \A p \in Procs :
       Sess(p).pc \in {"release", "exit"} => Sess(p).count = 0

\* What the teardown of handler h has done when it releases the gate
TornDown(h) ==
    /\ hs[h].stream_started => hs[h].streamoff
    /\ hs[h].mapped = {}
    /\ \A b \in BufIdx : hs[h].unmaps[b] = hs[h].maps[b]

ConfigureReturnedOk == start.step \in {"encoder", "httpd", "started"}

\* C15: after configure_camera_device returned success, the stored width,
\* height and pixel format are those the device is set to.
C15_StoredFormatIsDeviceFormat ==
    ConfigureReturnedOk =>
       /\ s_stream_state.pixformat = device.pixformat
       /\ s_stream_state.width = device.width
       /\ s_stream_state.height = device.height

\* C16: jpeg_encoder_init fails as not supported exactly for a pixel
\* format outside the four recognized ones, and for the four it fails
\* only when the engine or the output buffer cannot be allocated; every
\* failure leaves the encoder context empty: not initialized, no engine
\* handle, no output buffer.
C16_EncoderInit ==
    /\ start.step = "encoder" =>
          /\ ~s_jpeg_state.initialized
          /\ ~s_jpeg_state.handle /\ ~s_jpeg_state.out_buf
          /\ IF s_stream_state.pixformat \in SupportedPixFormats
             THEN start.ret \in {"jpeg_new_encoder_engine err",
                                 "ESP_ERR_NO_MEM"}
             ELSE start.ret = "ESP_ERR_NOT_SUPPORTED"
    /\ start.step \in {"httpd", "started"} =>
          s_stream_state.pixformat \in SupportedPixFormats
    /\ s_jpeg_state.initialized =>
          s_jpeg_state.handle /\ s_jpeg_state.out_buf

C16_Witness ==
    /\ start.step = "encoder" /\ start.ret = "ESP_ERR_NO_MEM"
    /\ s_stream_state.pixformat = "GREY"

\* C17: when VIDIOC_G_FMT fails in camera_server_start the call returns
\* an error and leaves the stored format, the device and the encoder as
\* they were, the encoder not configured and the server not started; no
\* request is served while the server is not started.
C17_QueryFailureAbortsStart ==
    /\ [](~s_server =>
            /\ ~s_jpeg_state.initialized
            /\ \A h \in Handlers : hs[h].pc = "idle")
    /\ [][(start' # start /\ start'.step = "configure") =>
            /\ start'.ret = "ESP_FAIL"
            /\ s_stream_state' = s_stream_state
            /\ device' = device
            /\ s_jpeg_state' = s_jpeg_state
            /\ ~s_server']_vars

C17_Witness ==
    /\ start.step = "configure" /\ start.ret = "ESP_FAIL"
    /\ ~s_server /\ lock.exists
    /\ s_stream_state.pixformat = "JPEG"

Http500 ==
    {"500 Camera busy", "500 Unable to alloc buffer",
     "500 Unable to alloc buffers", "500 Out of memory"}

\* C18: a /capture request whose session failed (gate denied, buffer
\* request, query, map, queue, stream-on, dequeue or encode failure) is
\* answered with an HTTP 500 response.
C18_CaptureFailureAnswers500 ==
    \A h \in Handlers :
       /\ (hs[h].kind = "capture" /\ hs[h].pc = "release"
             /\ hs[h].exit_cause \in
                   {"reqbufs", "querybuf", "mmap", "qbuf", "streamon",
                    "dq_eintr", "dq_err", "encode"})
            => hs[h].resp \in Http500
       /\ (hs[h].kind = "capture" /\ hs[h].pc = "done"
             /\ hs[h].releases = 0) => hs[h].resp \in Http500

\* C19: a /stream request is answered with 500 and a reason when the gate
\* is denied, when the buffer request fails or grants no buffer and when
\* the descriptors cannot be allocated; in those cases no buffer is mapped
\* or queued and stream-on is never issued.
C19_StreamStartFailureAnswers500 ==
    \A h \in Handlers :
       /\ (hs[h].kind = "stream" /\ hs[h].pc \in TeardownPcs
             /\ hs[h].exit_cause \in {"reqbufs", "calloc"}) =>
             /\ hs[h].resp = IF hs[h].exit_cause = "reqbufs"
                              THEN "500 Unable to alloc buffers"
                              ELSE "500 Out of memory"
             /\ hs[h].maps = ZeroCount /\ hs[h].mapped = {}
             /\ hs[h].queued = {}
             /\ ~hs[h].streamon /\ ~hs[h].stream_started
       /\ (hs[h].kind = "stream" /\ hs[h].pc = "done"
             /\ hs[h].releases = 0) =>
             /\ hs[h].resp = "500 Camera busy"
             /\ ~hs[h].touched

C19_Witness ==
    \E h \in Handlers, g \in Handlers :
       /\ hs[h].kind = "stream" /\ hs[h].pc = "release"
       /\ hs[h].exit_cause = "calloc" /\ hs[h].resp = "500 Out of memory"
       /\ hs[g].kind = "stream" /\ hs[g].pc = "done"
       /\ hs[g].resp = "500 Camera busy"

DetSetupFailures ==
    {"gfmt", "sfmt", "reqbufs", "querybuf", "mmap", "qbuf", "streamon"}

\* C20: a detection task that cannot start its session because the
\* device is busy backs off and retries: it does not go on to delete
\* itself.
C20_BusyBackoffRetry ==
    det.exit_cause \in DetSetupFailures => det.pc # "exit"

\* face_detect_stop has set the stop flag and polls running: under
\* SpecDetectFair it returns
StopEventuallyReturns == (ctl.pc = "stopping") ~> (ctl.pc = "idle")

\* The detection task leaves its cleanup only with stream-off issued if the
\* stream was started and every mapped buffer unmapped
DetUnwound ==
    det.pc = "exit" =>
       /\ det.streaming => det.streamoff
       /\ det.mapped = {}
       /\ \A b \in BufIdx : det.unmaps[b] = det.maps[b]

\* C21: once face_detect_stop has returned from a running detection, the
\* detection task has fully unwound: it has left its cleanup with stream-off
\* issued and every buffer unmapped, it has exited, and running is cleared.
C21_StopReturnsAfterUnwind ==
    /\ DetUnwound
    /\ (ctl.pc = "idle" /\ ctl.ret = "stopped") =>
          (det.pc = "none" /\ ~ctx.running)

\* C22: camera_lock_release called while the gate is not held changes
\* nothing: the gate stays free, and afterwards it is still granted to at
\* most one context at a time.
C22_StrayReleaseNoOp ==
    /\ [][\A h \in Handlers :
            (/\ hs[h].pc = "idle"
             /\ hs'[h].pc = hs[h].pc
             /\ hs'[h].releases = hs[h].releases + 1) => lock' = lock]_vars
    /\ [](Cardinality({h \in Handlers : hs[h].has_gate}) <= 1)

C22_Witness ==
    \E h, g \in Handlers :
       /\ h # g
       /\ hs[h].pc = "idle" /\ hs[h].releases = 1
       /\ lock.exists /\ lock.holder = g /\ hs[g].has_gate
       /\ hs[g].pc = "dqbuf"

\* C23: teardown is idempotent.  From every state, running release_buffers,
\* camera_server_stop or camera_deinit on the state a first run has left
\* leaves that state as it is, and issues no munmap, no delete and no
\* close.
C23_TeardownIdempotent ==
    /\ LET once == release_buffers(det) IN
       release_buffers(once) = once
    /\ LET once == camera_server_stop_state(s_server, lock, s_jpeg_state)
       IN
       /\ camera_server_stop_state(once.s_server, once.lock, once.js) = once
       /\ camera_server_stop_calls(once.s_server, once.lock, once.js) = {}
    /\ LET once == camera_deinit_state(cam)
           twice == camera_deinit_state(once)
       IN
       /\ [twice EXCEPT !.calls = once.calls] = once
       /\ twice.calls = {}

\* Each teardown has run on what it tears down: the detection task has
\* unmapped its buffers, the server that was started is stopped, and the
\* camera that was ready is released
C23_Witness ==
    /\ det.pc = "exit" /\ det.unmaps[0] = 1 /\ det.unmaps[1] = 1
    /\ start.step = "started" /\ ~s_server /\ ~lock.exists
    /\ ~s_jpeg_state.initialized
    /\ ~cam.cam_dev /\ ~cam.video_fd
    /\ cam.calls = camera_deinit_calls(CameraReady)

\* C24: whenever the encoder is marked initialized, its input format, its
\* sub-sampling and the size of its output buffer are those of the stored
\* stream format, after any sequence of camera_server_start and
\* camera_server_stop.
C24_EncoderMatchesFormat ==
    s_jpeg_state.initialized =>
       /\ s_jpeg_state.src_format = SrcFormat(s_stream_state.pixformat)
       /\ s_jpeg_state.sub_sample = SubSample(s_stream_state.pixformat)
       /\ s_jpeg_state.src_stride =
             (s_stream_state.width * s_stream_state.height
                * SrcBpp(s_stream_state.pixformat)) \div 8

\* The positions of a handler from its call of jpeg_encode_frame to the
\* end of the send that reads s_jpeg_state.out_buf
EncoderPcs == {"encode", "send_boundary", "send_part", "send"}

\* C25: a handler calls jpeg_encode_frame and sends the encoder's output
\* buffer only while it holds the gate, so at most one context is between
\* an encode and the end of its send.
C25_EncodeUnderGate ==
    /\ \A h \in Handlers :
          hs[h].pc \in EncoderPcs =>
             lock.exists /\ lock.holder = h /\ hs[h].has_gate
    /\ Cardinality({h \in Handlers : hs[h].pc \in EncoderPcs}) <= 1
    /\ det.pc \notin EncoderPcs

C25_Witness ==
    \E h, g \in Handlers :
       /\ h # g
       /\ hs[h].kind = "stream" /\ hs[h].pc = "send_part"
       /\ lock.holder = h
       /\ hs[g].kind = "capture" /\ hs[g].pc = "acquire"

\* C26: once a chunk send has failed in a streaming session the session
\* issues no further dequeue and no further encode: it issues the QBUF of
\* the buffer in hand, then stream-off, then unmaps every mapped buffer,
\* then releases the gate.
C26_SendFailureStops ==
    /\ [](\A h \in Handlers :
            (hs[h].kind = "stream" /\ hs[h].exit_cause = "send") =>
               /\ hs[h].pc \in {"requeue_fail", "cleanup", "unmap",
                                 "release"}
               /\ hs[h].pc = "requeue_fail" =>
                     hs[h].pending /\ ~hs[h].streamoff
               /\ hs[h].pc = "cleanup" =>
                     ~hs[h].pending /\ ~hs[h].streamoff
                        /\ hs[h].mapped = 0 .. (hs[h].count - 1)
               /\ hs[h].pc = "unmap" =>
                     hs[h].streamoff
                        /\ hs[h].mapped = 0 .. (hs[h].count - 1)
               /\ hs[h].pc = "release" =>
                     /\ hs[h].streamoff
                     /\ hs[h].mapped = {}
                     /\ \A b \in BufIdx :
                           hs[h].unmaps[b] = IF b < hs[h].count THEN 1
                                                                ELSE 0
                     /\ lock.holder = h)
    /\ [][\A h \in Handlers :
            (/\ hs[h].kind = "stream" /\ hs[h].exit_cause = "send"
             /\ hs'[h].pc # hs[h].pc) =>
               \/ hs[h].pc = "requeue_fail" /\ hs'[h].pc = "cleanup"
               \/ hs[h].pc = "cleanup" /\ hs'[h].pc = "unmap"
               \/ hs[h].pc = "unmap" /\ hs'[h].pc = "release"
               \/ /\ hs[h].pc = "release" /\ hs'[h].pc = "done"
                  /\ lock'.holder = 0]_vars

C26_Witness ==
    \E h \in Handlers :
       /\ hs[h].kind = "stream" /\ hs[h].exit_cause = "send"
       /\ hs[h].pc = "release" /\ hs[h].resp = "stream"
       /\ hs[h].count = STREAM_BUFFER_COUNT
       /\ hs[h].unmaps[0] = 1 /\ hs[h].unmaps[2] = 1

\* The statements of capture_handler in the order of the code
CaptureOrder ==
    <<"acquire", "reqbufs", "querybuf", "mmap", "qbuf", "streamon", "dqbuf",
      "encode", "send", "cleanup", "unmap", "release", "done">>

CaptureRank(pc) ==
    CHOOSE k \in 1 .. Len(CaptureOrder) : CaptureOrder[k] = pc

\* C27: a capture session holds at most the one buffer it requested and
\* every step takes it forward in the order of the code: the dequeue and
\* the encode are each issued at most once, and nothing returns to them
\* before the teardown, whatever the outcome of a step.
C27_CaptureRunsOnce ==
    /\ [](\A h \in Handlers :
            hs[h].kind = "capture" =>
               /\ hs[h].count <= CAPTURE_BUFFER_COUNT
               /\ CAPTURE_BUFFER_COUNT = 1
               /\ \A b \in BufIdx : b >= 1 => hs[h].maps[b] = 0
               /\ hs[h].pc \in TeardownPcs \cup {"done"} =>
                     hs[h].maps[0] <= 1)
    /\ [][\A h \in Handlers :
            (/\ hs[h].kind = "capture" /\ hs[h].pc # "done"
             /\ hs'[h] # hs[h]) =>
               /\ hs'[h].kind = "capture"
               /\ CaptureRank(hs'[h].pc) > CaptureRank(hs[h].pc)]_vars

C27_Witness ==
    \E h \in Handlers :
       /\ hs[h].kind = "capture" /\ hs[h].pc = "release"
       /\ hs[h].exit_cause = "complete" /\ hs[h].resp = "jpeg"
       /\ hs[h].unmaps[0] = 1

\* C28: running is true only while a detection task exists that has not
\* finished its cleanup: once the task has exited (or none was created)
\* running is false, for every interleaving of face_detect_start with the
\* task it creates.
C28_RunningOnlyWhileTask ==
    ctx.running => det.pc \notin {"none"}

\* C29: face_detect_start with a negative descriptor returns
\* ESP_ERR_INVALID_ARG, and with a valid one while running is set it
\* returns ESP_ERR_INVALID_STATE; either way the detection context (camera
\* fd, MQTT handle, stop flag, detector, task handle) and the detection
\* task are left as they were, and no task is created.
C29_RejectedStartChangesNothing ==
    [][\A camera_fd \in Fds, mqtt_client \in Clients :
         face_detect_start(camera_fd, mqtt_client) =>
            /\ camera_fd < 0 =>
                  /\ ctl' = [pc |-> "idle", ret |-> "ESP_ERR_INVALID_ARG"]
                  /\ ctx' = ctx /\ det' = det
            /\ (camera_fd >= 0 /\ ctx.running) =>
                  /\ ctl' = [pc |-> "idle", ret |-> "ESP_ERR_INVALID_STATE"]
                  /\ ctx' = ctx /\ det' = det]_vars

C29_Witness ==
    /\ ctl.pc = "idle" /\ ctl.ret = "ESP_ERR_INVALID_STATE"
    /\ ctx.running /\ ctx.task_handle /\ ctx.detector
    /\ ~ctx.should_stop
    /\ ctx.camera_fd = 1 /\ ctx.mqtt_client = MaxClient
    /\ det.pc = "dqbuf"

\* Every granted buffer of the session has been queried, mapped and queued
AllQueued(s) ==
    /\ s.count >= 1 /\ s.i >= s.count - 1
    /\ s.mapped = 0 .. (s.count - 1)
    /\ s.queued = 0 .. (s.count - 1)
    /\ \A b \in BufIdx : s.maps[b] = IF b < s.count THEN 1 ELSE 0

\* The parts of C30 on stream-on and on the dequeue
OrderedStart(s) ==
    /\ s.pc = "streamon" => AllQueued(s) /\ ~s.streamon
    /\ s.streamon => \A b \in BufIdx : s.maps[b] = IF b < s.count THEN 1
                                                                  ELSE 0
    /\ s.pc \in LoopPcs =>
          s.stream_started /\ s.streaming /\ ~s.streamoff
    /\ (s.pending \/ s.dequeued # {}) =>
          s.streamon /\ (s.streaming \/ s.streamoff)

Uninitialized ==
    /\ ~cam.cam_dev /\ ~cam.sccb_handle /\ ~cam.i2c_bus
    /\ ~cam.video_fd /\ ~cam.video_initialized

\* C31: whenever camera_init has returned NULL, everything the call
\* acquired has been released and the module is uninitialized: no sensor
\* device, SCCB handle or I2C bus is left allocated, camera_get_fd is
\* negative, and the video subsystem is not marked initialized on a deleted
\* I2C bus.
C31_FailedInitReleasesAll ==
    init.ret = "NULL" =>
       /\ init.leaked = {}
       /\ Uninitialized

\* The two ways a NULL return leaves something behind
C31_LeakedHandle == init.ret = "NULL" => init.leaked = {}
C31_VideoOnDeletedBus ==
    init.ret = "NULL" => ~(cam.video_initialized /\ ~cam.i2c_bus)

\* The indexes of the RAW10 formats of the sensor's format array, and of
\* those whose size is the desired resolution, when one is configured
Raw10Formats ==
    {i \in DOMAIN sensor.format_array :
        sensor.format_array[i].pixformat = "RAW10"}
DesiredFormats ==
    {i \in Raw10Formats :
        /\ sensor.desired_width > 0 /\ sensor.desired_height > 0
        /\ sensor.format_array[i].width = sensor.desired_width
        /\ sensor.format_array[i].height = sensor.desired_height}
First(S) == CHOOSE i \in S : \A j \in S : i <= j

\* camera_init has run its selection loop in its last call
SelectionRan ==
    /\ init.ret # "none"
    /\ init.step \in {"no_format", "set_format", "video", "open", "none"}

\* C32: for every format array, camera_init selects the first RAW10 format
\* of the desired resolution if there is one, otherwise the first RAW10
\* format; it fails with NULL at the selection exactly when the array has
\* no RAW10 format; it never selects a format that is not RAW10.
C32_SelectsRaw10 ==
    SelectionRan =>
       /\ DesiredFormats # {} => init.selected = First(DesiredFormats)
       /\ DesiredFormats = {} /\ Raw10Formats # {}
             => init.selected = First(Raw10Formats)
       /\ Raw10Formats = {} => init.selected = 0 /\ init.ret = "NULL"
       /\ init.step = "no_format" <=> Raw10Formats = {}
       /\ init.selected # 0
             => sensor.format_array[init.selected].pixformat = "RAW10"

\* camera_init has returned the device with the sensor set to a RAW10
\* format of the desired resolution that is not the first RAW10 format of
\* the array
C32_Witness ==
    /\ init.step = "none" /\ init.ret = "dev"
    /\ DesiredFormats # {}
    /\ init.selected = First(DesiredFormats)
    /\ init.selected # First(Raw10Formats)
    /\ device = sensor.format_array[init.selected]

\* C33: for any sequence of events, s_retry_num stays within
\* 0..CONFIG_ESP_MAXIMUM_RETRY; a disconnect calls esp_wifi_connect, and
\* counts a retry, exactly when it finds the counter below the maximum;
\* WIFI_FAIL_BIT is set only by a disconnect that finds the counter at the
\* maximum; got-IP sets the counter to 0 and sets WIFI_CONNECTED_BIT.
C33_RetryBounded ==
    /\ [](wifi.s_retry_num \in 0 .. CONFIG_ESP_MAXIMUM_RETRY)
    /\ [][wifi' # wifi =>
            /\ wifi'.event = "WIFI_EVENT_STA_DISCONNECTED" =>
                  /\ wifi'.connect
                        <=> wifi.s_retry_num < CONFIG_ESP_MAXIMUM_RETRY
                  /\ wifi'.s_retry_num =
                        IF wifi'.connect THEN wifi.s_retry_num + 1
                        ELSE wifi.s_retry_num
            /\ "WIFI_FAIL_BIT" \in wifi'.bits \ wifi.bits =>
                  /\ wifi'.event = "WIFI_EVENT_STA_DISCONNECTED"
                  /\ wifi.s_retry_num = CONFIG_ESP_MAXIMUM_RETRY
            /\ wifi'.event = "IP_EVENT_STA_GOT_IP" =>
                  /\ wifi'.s_retry_num = 0
                  /\ "WIFI_CONNECTED_BIT" \in wifi'.bits
       ]_vars

\* After the retries were used up and a further disconnect has set
\* WIFI_FAIL_BIT without a reconnect, a retry has been counted again: a
\* got-IP event lay between
C33_Witness ==
    /\ wifi.bits = {"WIFI_FAIL_BIT", "WIFI_CONNECTED_BIT"}
    /\ wifi.event = "WIFI_EVENT_STA_DISCONNECTED"
    /\ wifi.connect
    /\ wifi.s_retry_num = 1

====
